---- MODULE Spec2Model ----
(***************************************************************************)
(* Model of the yacloud_compute inventory plugin (src/yacloud_compute.py). *)
(* One run of InventoryModule.parse: read the options, build the clients,  *)
(* list clouds, folders and instances, then map the instances to hosts.    *)
(*                                                                         *)
(* Python dicts are functions whose domain is the set of keys that are     *)
(* present, so d[k] on a missing key (KeyError) is k \notin DOMAIN d.      *)
(* The provider's answers are protobuf messages (every field there, maybe  *)
(* empty); MessageToDict turns them into dicts and leaves out the fields   *)
(* that are empty or unset.                                                *)
(***************************************************************************)
EXTENDS Integers, Sequences, FiniteSets, TLC

VARIABLES
    pc,           \* position of the run inside parse
    config_file,  \* the options written in the configuration file
    fs,           \* the token file on disk
    api,          \* what the provider holds: clouds, folders, instances
    options,      \* the options as get_option returns them
    token,        \* _init_client's resolved token
    sdk,          \* TRUE once the SDK and its three clients are constructed
    clouds,       \* self.clouds
    all_folders,  \* _get_folders' accumulator
    folders,      \* self.folders
    hosts,        \* self.hosts
    idx,          \* index of the element the current for loop visits next
    group_label,  \* _process_hosts' group_label
    instance,     \* _process_hosts' loop variable
    group,        \* _process_hosts' group
    ip,           \* _process_hosts' ip
    requests,     \* the list requests issued so far, in order
    inventory,    \* self.inventory: groups with members, hosts with variables
    error         \* the exception that ended the run, "" if none

vars == <<pc, config_file, fs, api, options, token, sdk, clouds, all_folders,
          folders, hosts, idx, group_label, instance, group, ip, requests,
          inventory, error>>

(***************************************************************************)
(* Bounds of the inputs.                                                   *)
(***************************************************************************)
MaxClouds == 2
MaxFolders == 2
MaxInstances == 2
MaxIfaces == 2
MaxTokenLen == 2

(***************************************************************************)
(* Sequences and dicts.                                                    *)
(***************************************************************************)
Range(s) == {s[i] : i \in 1..Len(s)}

SeqsUpTo(S, n) == UNION {[1..k -> S] : k \in 0..n}

InjSeqsUpTo(S, n) ==
    {s \in SeqsUpTo(S, n) : \A i, j \in 1..Len(s) : i # j => s[i] # s[j]}

RECURSIVE Flatten(_)
Flatten(ss) == IF ss = <<>> THEN <<>> ELSE Head(ss) \o Flatten(Tail(ss))

EmptyDict == <<>>

None == "None"

(***************************************************************************)
(* str.strip(): drops the leading and trailing characters for which        *)
(* str.isspace() holds.  A string is the sequence of its Unicode code      *)
(* points; Whitespace is every code point that isspace() accepts.          *)
(***************************************************************************)
Whitespace ==
    (9..13) \cup (28..32) \cup {133, 160, 5760} \cup (8192..8202)
        \cup {8232, 8233, 8239, 8287, 12288}

RECURSIVE lstrip(_)
lstrip(s) ==
    IF s # <<>> /\ Head(s) \in Whitespace THEN lstrip(Tail(s)) ELSE s

RECURSIVE rstrip(_)
rstrip(s) ==
    IF s # <<>> /\ s[Len(s)] \in Whitespace
    THEN rstrip(SubSeq(s, 1, Len(s) - 1))
    ELSE s

strip(s) == rstrip(lstrip(s))

(***************************************************************************)
(* google.protobuf.json_format.MessageToDict on the provider's messages:   *)
(* only the fields that are set appear (a repeated or map field when it is *)
(* non-empty, a string when it is non-empty, a sub-message when it is      *)
(* present, even if empty), under their lowerCamelCase names.              *)
(***************************************************************************)
Field(key, present, value) == IF present THEN key :> value ELSE EmptyDict

CloudToDict(c) ==
    Field("id", c.id # "", c.id) @@ Field("name", c.name # "", c.name)

FolderToDict(f) ==
    Field("id", f.id # "", f.id) @@ Field("name", f.name # "", f.name)
        @@ Field("cloudId", f.cloud_id # "", f.cloud_id)

NatToDict(a) == Field("address", a.nat_address # "", a.nat_address)

AddressToDict(a) ==
    Field("address", a.address # "", a.address)
        @@ Field("oneToOneNat", a.has_nat, NatToDict(a))

InterfaceToDict(n) ==
    Field("primaryV4Address", n.has_primary, AddressToDict(n))

InstanceToDict(m) ==
    Field("name", m.name # "", m.name)
        @@ Field("status", m.status # "STATUS_UNSPECIFIED", m.status)
        @@ Field("labels", DOMAIN m.labels # {}, m.labels)
        @@ Field("networkInterfaces", m.network_interfaces # <<>>,
                 [i \in 1..Len(m.network_interfaces) |->
                      InterfaceToDict(m.network_interfaces[i])])

ListCloudsToDict(cs) ==
    Field("clouds", cs # <<>>, [i \in 1..Len(cs) |-> CloudToDict(cs[i])])

ListFoldersToDict(fl) ==
    Field("folders", fl # <<>>, [i \in 1..Len(fl) |-> FolderToDict(fl[i])])

ListInstancesToDict(ms) ==
    Field("instances", ms # <<>>, [i \in 1..Len(ms) |-> InstanceToDict(ms[i])])

(***************************************************************************)
(* The name filter of _get_clouds and _get_folders: with a non-empty       *)
(* allow-list keep the elements whose name is in it, else keep them all.   *)
(***************************************************************************)
InAllowList(x, allow) == x["name"] \in Range(allow)

\* The filter subscripts x["name"] of every element when it runs at all.
FilterKeyError(all, allow) ==
    allow # <<>> /\ \E i \in 1..Len(all) : "name" \notin DOMAIN all[i]

FilterByName_Unfiltered(all, allow) == all

FilterByName(all, allow) ==
    IF allow # <<>> THEN SelectSeq(all, LAMBDA x : InAllowList(x, allow)) ELSE all

(***************************************************************************)
(* _get_ip_for_instance.  The result is [kind, val]: an address ("ip"),    *)
(* None ("none"), or the KeyError of a subscript on a missing key.         *)
(***************************************************************************)
IpResult(kind, val) == [kind |-> kind, val |-> val]

RECURSIVE ScanInterfaces(_)
ScanInterfaces(interfaces) ==
    IF interfaces = <<>> THEN IpResult("none", "")
    ELSE LET interface == Head(interfaces) IN
         IF "primaryV4Address" \notin DOMAIN interface
         THEN IpResult("KeyError", "primaryV4Address")
         ELSE LET address == interface["primaryV4Address"] IN
              IF DOMAIN address # {}
              THEN IF "oneToOneNat" \in DOMAIN address
                      /\ DOMAIN address["oneToOneNat"] # {}
                   THEN IF "address" \in DOMAIN address["oneToOneNat"]
                        THEN IpResult("ip", address["oneToOneNat"]["address"])
                        ELSE IpResult("KeyError", "address")
                   ELSE IF "address" \in DOMAIN address
                        THEN IpResult("ip", address["address"])
                        ELSE IpResult("KeyError", "address")
              ELSE ScanInterfaces(Tail(interfaces))

_get_ip_for_instance(inst) ==
    IF "networkInterfaces" \notin DOMAIN inst
    THEN IpResult("KeyError", "networkInterfaces")
    ELSE ScanInterfaces(inst["networkInterfaces"])

(***************************************************************************)
(* The group _process_hosts chooses for an instance.                       *)
(***************************************************************************)
LabelsKeyError(inst, label) == label # "" /\ "labels" \notin DOMAIN inst

TargetGroup(inst, label) ==
    IF label # "" /\ label \in DOMAIN inst["labels"]
    THEN inst["labels"][label]
    ELSE "yacloud"

(***************************************************************************)
(* The inventory: groups maps a group name to its member hosts, hosts maps *)
(* a host name to its variables.                                           *)
(***************************************************************************)
EmptyInventory == [groups |-> EmptyDict, hosts |-> EmptyDict]

add_group(inv, g) ==
    IF g \in DOMAIN inv.groups THEN inv
    ELSE [inv EXCEPT !.groups = (g :> {}) @@ @]

add_host(inv, h, g) ==
    [groups |-> [x \in DOMAIN inv.groups |->
                    IF x = g THEN inv.groups[x] \cup {h} ELSE inv.groups[x]],
     hosts |-> IF h \in DOMAIN inv.hosts THEN inv.hosts
               ELSE (h :> EmptyDict) @@ inv.hosts]

set_variable(inv, h, k, v) ==
    [inv EXCEPT !.hosts = (h :> ((k :> v) @@ inv.hosts[h])) @@ @]

(***************************************************************************)
(* The inputs of a run: the configuration file, the token file and the     *)
(* provider's content.                                                     *)
(***************************************************************************)
TokenPath == "token.txt"

\* space, form feed, no-break space, "a"
TokenChars == {32, 12, 160, 97}

\* The token "a".
SomeToken == <<97>>

Options(tok, file, cl, fl, label) ==
    [yacloud_token |-> tok, yacloud_token_file |-> file, yacloud_clouds |-> cl,
     yacloud_folders |-> fl, yacloud_group_label |-> label]

\* The options' documented defaults; an unset token is the empty string here.
DefaultOptions == Options(<<>>, None, <<>>, <<>>, "")

NoFile == [exists |-> FALSE, content |-> <<>>]

File(content) == [exists |-> TRUE, content |-> content]

Cloud(id, name) == [id |-> id, name |-> name]

Folder(id, name, cloud_id) == [id |-> id, name |-> name, cloud_id |-> cloud_id]

Unset == [has_primary |-> FALSE, address |-> "", has_nat |-> FALSE, nat_address |-> ""]

EmptyRec == [has_primary |-> TRUE, address |-> "", has_nat |-> FALSE, nat_address |-> ""]

Internal(a) == [has_primary |-> TRUE, address |-> a, has_nat |-> FALSE, nat_address |-> ""]

NatMapped(a, n) == [has_primary |-> TRUE, address |-> a, has_nat |-> TRUE, nat_address |-> n]

Instance(name, status, labels, ifaces) ==
    [name |-> name, status |-> status, labels |-> labels, network_interfaces |-> ifaces]

CloudCatalog == {Cloud("c1", "A"), Cloud("c2", "B"), Cloud("c3", "C")}

CloudIds == {c.id : c \in CloudCatalog}

FolderCatalog == {Folder("f1", "x", "c1"), Folder("f2", "y", "c1"), Folder("f3", "x", "c2")}

FolderIds == {f.id : f \in FolderCatalog}

IfaceShapes ==
    {Unset, EmptyRec, Internal("10.0.0.5"), Internal("10.0.0.6"), NatMapped("10.0.0.5", "1.2.3.4")}

Api(cs, fl, ms) == [clouds |-> cs, folders |-> fl, instances |-> ms]

\* One cloud with one folder holding the given instances.
OneFolderApi(ms) ==
    Api(<<Cloud("c1", "A")>>,
        [c \in CloudIds |-> IF c = "c1" THEN <<Folder("f1", "x", "c1")>> ELSE <<>>],
        [f \in FolderIds |-> IF f = "f1" THEN ms ELSE <<>>])

Input(cfg, file, world) == [config_file |-> cfg, fs |-> file, api |-> world]

\* Token resolution: every literal token, with and without a token file.
ClientInputs ==
    LET world == OneFolderApi(<<Instance("n1", "RUNNING", EmptyDict, <<Internal("10.0.0.5")>>)>>)
    IN  {Input(Options(tok, None, <<>>, <<>>, ""), NoFile, world) :
            tok \in SeqsUpTo(TokenChars, 1)}
        \cup {Input(Options(tok, TokenPath, <<>>, <<>>, ""), file, world) :
                tok \in SeqsUpTo(TokenChars, 1),
                file \in {NoFile} \cup {File(c) : c \in SeqsUpTo(TokenChars, MaxTokenLen)}}

\* Enumeration: the provider's clouds and folders against the allow-lists.
EnumInputs ==
    {Input(Options(SomeToken, None, cl, fl, "env"), NoFile,
           Api(cs,
               [c \in CloudIds |-> IF c = "c1" THEN f1 ELSE
                                   IF c = "c2" THEN <<Folder("f3", "x", "c2")>> ELSE <<>>],
               [f \in FolderIds |->
                   IF f = "f1"
                   THEN <<Instance("h1", "RUNNING", [env |-> "prod"], <<Internal("10.0.0.5")>>)>>
                   ELSE IF f = "f2"
                   THEN <<Instance("h2", "STOPPED", [env |-> "dev"], <<Internal("10.0.0.6")>>)>>
                   ELSE <<>>])) :
        cl \in {<<>>, <<"A">>, <<"B", "A">>},
        fl \in {<<>>, <<"x">>, <<"y">>},
        cs \in InjSeqsUpTo(CloudCatalog, MaxClouds),
        f1 \in InjSeqsUpTo({f \in FolderCatalog : f.cloud_id = "c1"}, MaxFolders)}

\* Mapping: the instances of one folder, with and without a grouping label.
MapperInstances ==
    {Instance(n, st, lb, nis) :
        n \in {"n1", "n2"}, st \in {"RUNNING", "STOPPED"},
        lb \in {EmptyDict, [env |-> "prod"]},
        nis \in {<<EmptyRec>>, <<Internal("10.0.0.5")>>,
                 <<NatMapped("10.0.0.6", "1.2.3.4")>>}}

MapperInputs ==
    {Input(Options(SomeToken, None, <<>>, <<>>, label), NoFile, OneFolderApi(ms)) :
        label \in {"", "env"}, ms \in SeqsUpTo(MapperInstances, MaxInstances)}

\* Address resolution: one running instance with every list of interfaces.
ResolverInputs ==
    {Input(Options(SomeToken, None, <<>>, <<>>, ""), NoFile,
           OneFolderApi(<<Instance("n1", "RUNNING", EmptyDict, nis)>>)) :
        nis \in SeqsUpTo(IfaceShapes, MaxIfaces)}

\* Decoding: clouds, folders and instances with an empty id, name or status,
\* which MessageToDict leaves out.
SparseInputs ==
    {Input(Options(SomeToken, None, cl, fl, ""), NoFile,
           Api(<<c>>,
               [x \in CloudIds |-> IF x = "c1" THEN <<f>> ELSE <<>>],
               [x \in FolderIds |-> IF x = "f1" THEN <<m>> ELSE <<>>])) :
        cl \in {<<>>, <<"A">>}, fl \in {<<>>, <<"x">>},
        c \in {Cloud("c1", "A"), Cloud("c1", ""), Cloud("", "A")},
        f \in {Folder("f1", "x", "c1"), Folder("f1", "", "c1"), Folder("", "x", "c1")},
        m \in {Instance(n, st, EmptyDict, <<Internal("10.0.0.5")>>) :
                  n \in {"", "n1"},
                  st \in {"RUNNING", "STOPPED", "STATUS_UNSPECIFIED"}}}

Inputs ==
    ClientInputs \cup EnumInputs \cup MapperInputs \cup ResolverInputs
        \cup SparseInputs

(***************************************************************************)
(* The state when parse is called.                                         *)
(***************************************************************************)
NoIp == IpResult("unset", "")

Init ==
    /\ \E in \in Inputs :
          /\ config_file = in.config_file
          /\ fs = in.fs
          /\ api = in.api
    /\ pc = "read_config"
    /\ options = DefaultOptions
    /\ token = <<>>
    /\ sdk = FALSE
    /\ clouds = <<>>
    /\ all_folders = <<>>
    /\ folders = <<>>
    /\ hosts = <<>>
    /\ idx = 1
    /\ group_label = ""
    /\ instance = EmptyDict
    /\ group = ""
    /\ ip = NoIp
    /\ requests = <<>>
    /\ inventory = EmptyInventory
    /\ error = ""

Request(kind, id) == [kind |-> kind, id |-> id]

\* An uncaught exception: parse stops where it is.
Raise(e) == error' = e /\ UNCHANGED pc

Failed == error # ""

\* The order of the positions of parse.
Pos(p) ==
    CASE p = "read_config" -> 1
      [] p = "init_client" -> 2
      [] p = "get_clouds" -> 3
      [] p = "get_folders" -> 4
      [] p = "get_folders_loop" -> 5
      [] p = "get_all_hosts" -> 6
      [] p = "get_all_hosts_loop" -> 7
      [] p = "process_hosts" -> 8
      [] p = "done" -> 9

inputs == <<config_file, fs, api>>

mapper == <<group_label, instance, group, ip, inventory>>

(***************************************************************************)
(* parse: _read_config_data loads the file's options.                      *)
(***************************************************************************)
_read_config_data ==
    /\ pc = "read_config" /\ ~Failed
    /\ options' = config_file
    /\ pc' = "init_client"
    /\ UNCHANGED <<inputs, token, sdk, clouds, all_folders, folders, hosts, idx,
                   mapper, requests, error>>

(***************************************************************************)
(* _init_client: the token of the token file if a path is configured, else *)
(* the literal token; an empty token is an error; then the SDK and the     *)
(* three clients, with no request.                                         *)
(***************************************************************************)
ResolveToken_Fallback(opts, file) ==
    IF opts.yacloud_token_file # None /\ strip(file.content) # <<>>
    THEN strip(file.content)
    ELSE opts.yacloud_token

ResolveToken(opts, file) ==
    IF opts.yacloud_token_file # None THEN strip(file.content) ELSE opts.yacloud_token

_init_client_NoEmptyCheck ==
    /\ pc = "init_client" /\ ~Failed
    /\ IF options.yacloud_token_file # None /\ ~fs.exists
       THEN /\ Raise("IOError")
            /\ UNCHANGED <<token, sdk>>
       ELSE /\ token' = ResolveToken(options, fs)
            /\ sdk' = TRUE /\ pc' = "get_clouds" /\ UNCHANGED error
    /\ UNCHANGED <<inputs, options, clouds, all_folders, folders, hosts, idx,
                   mapper, requests>>

_init_client ==
    /\ pc = "init_client" /\ ~Failed
    /\ IF options.yacloud_token_file # None /\ ~fs.exists
       THEN /\ Raise("IOError")
            /\ UNCHANGED <<token, sdk>>
       ELSE /\ token' = ResolveToken(options, fs)
            /\ IF token' = <<>>
               THEN Raise("AnsibleError") /\ UNCHANGED sdk
               ELSE sdk' = TRUE /\ pc' = "get_clouds" /\ UNCHANGED error
    /\ UNCHANGED <<inputs, options, clouds, all_folders, folders, hosts, idx,
                   mapper, requests>>

(***************************************************************************)
(* _get_clouds: one list request, filtered by the cloud allow-list.        *)
(***************************************************************************)
_get_clouds ==
    /\ pc = "get_clouds" /\ ~Failed
    /\ requests' = Append(requests, Request("clouds", ""))
    /\ \E transport_ok \in BOOLEAN :
          LET dict_ == ListCloudsToDict(api.clouds) IN
          IF ~transport_ok
          THEN Raise("TransportError") /\ UNCHANGED clouds
          ELSE IF "clouds" \notin DOMAIN dict_
                  \/ FilterKeyError(dict_["clouds"], options.yacloud_clouds)
          THEN Raise("KeyError") /\ UNCHANGED clouds
          ELSE /\ clouds' = FilterByName(dict_["clouds"], options.yacloud_clouds)
               /\ pc' = "get_folders"
               /\ UNCHANGED error
    /\ UNCHANGED <<inputs, options, token, sdk, all_folders, folders, hosts, idx, mapper>>

(***************************************************************************)
(* _get_folders: one list request per cloud of self.clouds, the answers    *)
(* appended to all_folders; the folder allow-list filters the whole list.  *)
(***************************************************************************)
_get_folders_begin ==
    /\ pc = "get_folders" /\ ~Failed
    /\ all_folders' = <<>>
    /\ idx' = 1
    /\ pc' = "get_folders_loop"
    /\ UNCHANGED <<inputs, options, token, sdk, clouds, folders, hosts, mapper,
                   requests, error>>

_get_folders_list_Overwrite ==
    /\ pc = "get_folders_loop" /\ ~Failed
    /\ idx <= Len(clouds)
    /\ LET cloud == clouds[idx] IN
       IF "id" \notin DOMAIN cloud
       THEN Raise("KeyError") /\ UNCHANGED <<requests, all_folders, idx>>
       ELSE
       /\ requests' = Append(requests, Request("folders", cloud["id"]))
       /\ \E transport_ok \in BOOLEAN :
             LET dict_ == ListFoldersToDict(api.folders[cloud["id"]]) IN
             IF ~transport_ok
             THEN Raise("TransportError") /\ UNCHANGED <<all_folders, idx>>
             ELSE IF "folders" \notin DOMAIN dict_
             THEN Raise("KeyError") /\ UNCHANGED <<all_folders, idx>>
             ELSE /\ all_folders' = dict_["folders"]
                  /\ idx' = idx + 1
                  /\ UNCHANGED <<pc, error>>
    /\ UNCHANGED <<inputs, options, token, sdk, clouds, folders, hosts, mapper>>

_get_folders_list ==
    /\ pc = "get_folders_loop" /\ ~Failed
    /\ idx <= Len(clouds)
    /\ LET cloud == clouds[idx] IN
       IF "id" \notin DOMAIN cloud
       THEN Raise("KeyError") /\ UNCHANGED <<requests, all_folders, idx>>
       ELSE
       /\ requests' = Append(requests, Request("folders", cloud["id"]))
       /\ \E transport_ok \in BOOLEAN :
             LET dict_ == ListFoldersToDict(api.folders[cloud["id"]]) IN
             IF ~transport_ok
             THEN Raise("TransportError") /\ UNCHANGED <<all_folders, idx>>
             ELSE IF "folders" \notin DOMAIN dict_
             THEN Raise("KeyError") /\ UNCHANGED <<all_folders, idx>>
             ELSE /\ all_folders' = all_folders \o dict_["folders"]
                  /\ idx' = idx + 1
                  /\ UNCHANGED <<pc, error>>
    /\ UNCHANGED <<inputs, options, token, sdk, clouds, folders, hosts, mapper>>

_get_folders_filter ==
    /\ pc = "get_folders_loop" /\ ~Failed
    /\ idx > Len(clouds)
    /\ IF FilterKeyError(all_folders, options.yacloud_folders)
       THEN Raise("KeyError") /\ UNCHANGED folders
       ELSE /\ folders' = FilterByName(all_folders, options.yacloud_folders)
            /\ pc' = "get_all_hosts"
            /\ UNCHANGED error
    /\ UNCHANGED <<inputs, options, token, sdk, clouds, all_folders, hosts, idx,
                   mapper, requests>>

(***************************************************************************)
(* _get_all_hosts: one list request per folder of self.folders; a          *)
(* non-empty answer's instances are appended to self.hosts.                *)
(***************************************************************************)
_get_all_hosts_begin ==
    /\ pc = "get_all_hosts" /\ ~Failed
    /\ hosts' = <<>>
    /\ idx' = 1
    /\ pc' = "get_all_hosts_loop"
    /\ UNCHANGED <<inputs, options, token, sdk, clouds, all_folders, folders,
                   mapper, requests, error>>

_get_all_hosts_list_Unfiltered ==
    /\ pc = "get_all_hosts_loop" /\ ~Failed
    /\ idx <= Len(all_folders)
    /\ LET folder == all_folders[idx] IN
       IF "id" \notin DOMAIN folder
       THEN Raise("KeyError") /\ UNCHANGED <<requests, hosts, idx>>
       ELSE
       /\ requests' = Append(requests, Request("instances", folder["id"]))
       /\ \E transport_ok \in BOOLEAN :
             LET dict_ == ListInstancesToDict(api.instances[folder["id"]]) IN
             IF ~transport_ok
             THEN Raise("TransportError") /\ UNCHANGED <<hosts, idx>>
             ELSE /\ hosts' = IF DOMAIN dict_ # {} THEN hosts \o dict_["instances"]
                               ELSE hosts
                  /\ idx' = idx + 1
                  /\ UNCHANGED <<pc, error>>
    /\ UNCHANGED <<inputs, options, token, sdk, clouds, all_folders, folders, mapper>>

_get_all_hosts_list ==
    /\ pc = "get_all_hosts_loop" /\ ~Failed
    /\ idx <= Len(folders)
    /\ LET folder == folders[idx] IN
       IF "id" \notin DOMAIN folder
       THEN Raise("KeyError") /\ UNCHANGED <<requests, hosts, idx>>
       ELSE
       /\ requests' = Append(requests, Request("instances", folder["id"]))
       /\ \E transport_ok \in BOOLEAN :
             LET dict_ == ListInstancesToDict(api.instances[folder["id"]]) IN
             IF ~transport_ok
             THEN Raise("TransportError") /\ UNCHANGED <<hosts, idx>>
             ELSE /\ hosts' = IF DOMAIN dict_ # {} THEN hosts \o dict_["instances"]
                               ELSE hosts
                  /\ idx' = idx + 1
                  /\ UNCHANGED <<pc, error>>
    /\ UNCHANGED <<inputs, options, token, sdk, clouds, all_folders, folders, mapper>>

(***************************************************************************)
(* _process_hosts: the grouping label, then one instance per step: choose  *)
(* the group, add it, and for a RUNNING instance with an address add the   *)
(* host to the group and set its ansible_host.                             *)
(***************************************************************************)
_process_hosts_begin ==
    /\ pc = "get_all_hosts_loop" /\ ~Failed
    /\ idx > Len(folders)
    /\ group_label' = options.yacloud_group_label
    /\ idx' = 1
    /\ pc' = "process_hosts"
    /\ UNCHANGED <<inputs, options, token, sdk, clouds, all_folders, folders, hosts,
                   instance, group, ip, inventory, requests, error>>

_process_hosts_instance ==
    /\ pc = "process_hosts" /\ ~Failed
    /\ idx <= Len(hosts)
    /\ instance' = hosts[idx]
    /\ IF LabelsKeyError(instance', group_label)
       THEN Raise("KeyError") /\ UNCHANGED <<group, ip, inventory, idx>>
       ELSE /\ group' = TargetGroup(instance', group_label)
            /\ LET grouped == add_group(inventory, group') IN
               IF "status" \notin DOMAIN instance'
               THEN /\ Raise("KeyError")
                    /\ inventory' = grouped
                    /\ UNCHANGED <<ip, idx>>
               ELSE IF instance'["status"] = "RUNNING"
               THEN /\ ip' = _get_ip_for_instance(instance')
                    /\ IF \/ ip'.kind = "KeyError"
                          \/ (/\ ip'.kind = "ip" /\ ip'.val # ""
                              /\ "name" \notin DOMAIN instance')
                       THEN /\ Raise("KeyError")
                            /\ inventory' = grouped
                            /\ UNCHANGED idx
                       ELSE /\ inventory' =
                                  IF ip'.kind = "ip" /\ ip'.val # ""
                                  THEN set_variable(
                                           add_host(grouped, instance'["name"], group'),
                                           instance'["name"], "ansible_host", ip'.val)
                                  ELSE grouped
                            /\ idx' = idx + 1
                            /\ UNCHANGED <<pc, error>>
               ELSE /\ inventory' = grouped
                    /\ idx' = idx + 1
                    /\ UNCHANGED <<ip, pc, error>>
    /\ UNCHANGED <<inputs, options, token, sdk, clouds, all_folders, folders, hosts,
                   group_label, requests>>

parse_return ==
    /\ pc = "process_hosts" /\ ~Failed
    /\ idx > Len(hosts)
    /\ pc' = "done"
    /\ UNCHANGED <<inputs, options, token, sdk, clouds, all_folders, folders, hosts,
                   idx, mapper, requests, error>>

Next ==
    \/ _read_config_data
    \/ _init_client
    \/ _get_clouds
    \/ _get_folders_begin
    \/ _get_folders_list
    \/ _get_folders_filter
    \/ _get_all_hosts_begin
    \/ _get_all_hosts_list
    \/ _process_hosts_begin
    \/ _process_hosts_instance
    \/ parse_return

Spec == Init /\ [][Next]_vars

(***************************************************************************)
(* What the claims speak of, stated without the operators of the model.    *)
(***************************************************************************)
\* out is exactly the elements of s that satisfy Keep, in the order of s.
IsSelectionOf(out, s, Keep(_)) ==
    LET kept == {i \in 1..Len(s) : Keep(s[i])} IN
    /\ Len(out) = Cardinality(kept)
    /\ \A i \in kept : out[Cardinality({j \in kept : j <= i})] = s[i]

\* t is s without its leading and trailing whitespace.
IsStripOf(t, s) ==
    /\ t = <<>> \/ (t[1] \notin Whitespace /\ t[Len(t)] \notin Whitespace)
    /\ \E a \in 0..Len(s) :
          /\ a + Len(t) <= Len(s)
          /\ \A i \in 1..a : s[i] \in Whitespace
          /\ \A i \in 1..Len(t) : s[a + i] = t[i]
          /\ \A i \in (a + Len(t) + 1)..Len(s) : s[i] \in Whitespace

\* The provider's answers as the enumerators decode them.
ProviderClouds == [i \in 1..Len(api.clouds) |-> CloudToDict(api.clouds[i])]

ProviderFolders(cloud_id) ==
    [i \in 1..Len(api.folders[cloud_id]) |-> FolderToDict(api.folders[cloud_id][i])]

SelectedCloudsFolders ==
    Flatten([i \in 1..Len(clouds) |-> ProviderFolders(clouds[i]["id"])])

Allowed(x, allow) == allow = <<>> \/ \E i \in 1..Len(allow) : allow[i] = x["name"]

\* The status and the name of a decoded instance; the decoding leaves out an
\* unspecified status and an empty name.
StatusOf(inst) == IF "status" \in DOMAIN inst THEN inst["status"] ELSE "STATUS_UNSPECIFIED"

NameOf(inst) == IF "name" \in DOMAIN inst THEN inst["name"] ELSE ""

\* An interface carries a primary IPv4 address record.
HasRecord(interface) ==
    /\ "primaryV4Address" \in DOMAIN interface
    /\ DOMAIN interface["primaryV4Address"] # {}

\* The address the Address Resolver is said to return for an instance.
ClaimedIp(inst) ==
    LET nis == IF "networkInterfaces" \in DOMAIN inst THEN inst["networkInterfaces"]
               ELSE <<>>
        with == {i \in 1..Len(nis) : HasRecord(nis[i])}
    IN  IF with = {} THEN IpResult("none", "")
        ELSE LET first == CHOOSE i \in with : \A j \in with : i <= j
                 record == nis[first]["primaryV4Address"]
             IN  IF "oneToOneNat" \in DOMAIN record
                    /\ "address" \in DOMAIN record["oneToOneNat"]
                 THEN IpResult("ip", record["oneToOneNat"]["address"])
                 ELSE IpResult("ip", record["address"])

\* The group the Host Mapper is said to choose for an instance.
ClaimedGroup(inst, label) ==
    IF label # "" /\ "labels" \in DOMAIN inst /\ label \in DOMAIN inst["labels"]
    THEN inst["labels"][label]
    ELSE "yacloud"

\* The Host Mapper has visited an instance: instance is the last one visited.
MapperVisited == Pos(pc) >= Pos("process_hosts") /\ instance # EmptyDict

\* The number of instances the Host Mapper has processed to the end.
Processed == IF pc = "done" THEN Len(hosts) ELSE idx - 1

DistinctNames ==
    \A i, j \in 1..Len(hosts) : i # j => NameOf(hosts[i]) # NameOf(hosts[j])

(***************************************************************************)
(* C1: the Host Mapper's step on an instance that is not RUNNING changes   *)
(* nothing in the inventory (no group, no host) and leaves the instance in *)
(* the enumerated list.  The code adds the instance's group first.         *)
(***************************************************************************)
C1_NotRunningNoSideEffect ==
    [][(/\ pc = "process_hosts" /\ ~Failed
        /\ idx <= Len(hosts)
        /\ StatusOf(hosts[idx]) # "RUNNING")
          => (inventory' = inventory /\ hosts' = hosts)]_vars

(***************************************************************************)
(* C2: whenever the run has failed, the inventory holds no group and no    *)
(* host.  The code keeps what the Host Mapper registered before the error. *)
(***************************************************************************)
C2_NoPartialInventoryOnFailure == Failed => inventory = EmptyInventory

(***************************************************************************)
(* C3: with pairwise distinct instance names the Host Mapper raises no     *)
(* error, and for every instance it has processed, a host of its name      *)
(* exists iff it is RUNNING and the resolver returns an address; the host  *)
(* is then a member of the instance's group with that ansible_host; and    *)
(* there is no other host.                                                 *)
(***************************************************************************)
C3_HostsIffRunningWithAddress ==
    (Pos(pc) >= Pos("process_hosts") /\ DistinctNames) =>
        /\ ~Failed
        /\ \A j \in 1..Processed :
              LET n == NameOf(hosts[j])
                  r == _get_ip_for_instance(hosts[j])
                  g == ClaimedGroup(hosts[j], group_label)
              IN  /\ n \in DOMAIN inventory.hosts
                        <=> (StatusOf(hosts[j]) = "RUNNING" /\ r.kind = "ip")
                  /\ n \in DOMAIN inventory.hosts =>
                        /\ g \in DOMAIN inventory.groups
                        /\ n \in inventory.groups[g]
                        /\ inventory.hosts[n] = [ansible_host |-> r.val]
        /\ \A n \in DOMAIN inventory.hosts :
              \E j \in 1..Processed : NameOf(hosts[j]) = n

(***************************************************************************)
(* C4: with an empty literal token and no token file the run never passes  *)
(* _init_client: it fails there with the configuration error, no request   *)
(* is issued, no client is constructed and the inventory is unchanged.     *)
(***************************************************************************)
C4_EmptyTokenAbortsBeforeNetwork ==
    (config_file.yacloud_token = <<>> /\ config_file.yacloud_token_file = None) =>
        /\ Pos(pc) <= Pos("init_client")
        /\ error \in {"", "AnsibleError"}
        /\ requests = <<>>
        /\ ~sdk
        /\ inventory = EmptyInventory

C4_Witness ==
    /\ config_file.yacloud_token = <<>>
    /\ config_file.yacloud_token_file = None
    /\ pc = "init_client"
    /\ error = "AnsibleError"

(***************************************************************************)
(* C5: once _get_clouds has returned, self.clouds is the provider's answer *)
(* unchanged when the cloud allow-list is empty, and otherwise exactly the *)
(* answer's clouds whose name is in the allow-list, in the provider's      *)
(* order.                                                                  *)
(***************************************************************************)
C5_CloudAllowList ==
    Pos(pc) > Pos("get_clouds") =>
        LET L == options.yacloud_clouds IN
        IF L = <<>>
        THEN clouds = ProviderClouds
        ELSE /\ \A i \in 1..Len(clouds) : \E k \in 1..Len(L) : clouds[i]["name"] = L[k]
             /\ IsSelectionOf(clouds, ProviderClouds, LAMBDA c : Allowed(c, L))

C5_Witness ==
    /\ Pos(pc) > Pos("get_clouds")
    /\ options.yacloud_clouds # <<>>
    /\ clouds # <<>>
    /\ Len(clouds) < Len(api.clouds)

(***************************************************************************)
(* C6: once _get_folders has returned, self.folders is the concatenation,  *)
(* in the order of self.clouds, of the folders of each selected cloud,     *)
(* from which exactly the folders whose name the folder allow-list holds   *)
(* are kept (all of them when it is empty), whatever their cloud.          *)
(***************************************************************************)
C6_FoldersConcatenatedThenFiltered ==
    Pos(pc) > Pos("get_folders_loop") =>
        IsSelectionOf(folders, SelectedCloudsFolders,
                      LAMBDA f : Allowed(f, options.yacloud_folders))

C6_Witness ==
    /\ Pos(pc) > Pos("get_folders_loop")
    /\ options.yacloud_folders # <<>>
    /\ Len(folders) < Len(SelectedCloudsFolders)
    /\ \E i, j \in 1..Len(folders) :
          /\ i < j
          /\ folders[i]["name"] = folders[j]["name"]
          /\ folders[i]["cloudId"] # folders[j]["cloudId"]

(***************************************************************************)
(* C7: when the Host Mapper has resolved the address of a RUNNING          *)
(* instance, the result is the NAT address, else the own address, of the   *)
(* first interface that has a primary IPv4 address record, and None,       *)
(* without an error, when no interface has one.  The code raises KeyError  *)
(* on an interface without the record and on an instance without           *)
(* interfaces.                                                             *)
(***************************************************************************)
C7_FirstInterfaceAddress ==
    (/\ MapperVisited
     /\ ~LabelsKeyError(instance, group_label)
     /\ StatusOf(instance) = "RUNNING")
        => ip = ClaimedIp(instance)

(***************************************************************************)
(* C8: when the Host Mapper has visited an instance, the run has not       *)
(* failed on its labels, its group is the grouping label's value if the    *)
(* label is configured and among the instance's labels and "yacloud"       *)
(* otherwise, and a RUNNING instance with an address is a member of that   *)
(* group.  The code raises KeyError on an instance without labels when a   *)
(* grouping label is configured.                                           *)
(***************************************************************************)
C8_TargetGroup ==
    MapperVisited =>
        /\ ~(Failed /\ LabelsKeyError(instance, group_label))
        /\ group = ClaimedGroup(instance, group_label)
        /\ (StatusOf(instance) = "RUNNING" /\ ClaimedIp(instance).kind = "ip" /\ ~Failed)
              => /\ group \in DOMAIN inventory.groups
                 /\ NameOf(instance) \in inventory.groups[group]

(***************************************************************************)
(* C9: the requests are issued stage by stage: the list-clouds request,    *)
(* then one list-folders request per cloud of self.clouds in order, then   *)
(* one list-instances request per folder of self.folders in order; none    *)
(* for a cloud or folder an allow-list removed; the inventory is untouched *)
(* until every request has completed.                                      *)
(***************************************************************************)
C9_RequestsStageByStage ==
    /\ Pos(pc) < Pos("get_clouds") => requests = <<>>
    /\ Pos(pc) > Pos("get_clouds") => requests # <<>>
    /\ \E nf \in 0..Len(clouds), ni \in 0..Len(folders) :
          /\ requests \in {<<>>} \cup
                {<<Request("clouds", "")>>
                    \o [i \in 1..nf |-> Request("folders", clouds[i]["id"])]
                    \o [i \in 1..ni |-> Request("instances", folders[i]["id"])]}
          /\ ni > 0 => nf = Len(clouds)
          /\ Pos(pc) > Pos("get_folders_loop") => nf = Len(clouds)
          /\ Pos(pc) >= Pos("process_hosts") => ni = Len(folders)
    /\ \A k \in 1..Len(requests) :
          /\ requests[k].kind = "folders" =>
                \E c \in Range(api.clouds) :
                    c.id = requests[k].id /\ Allowed(c, options.yacloud_clouds)
          /\ requests[k].kind = "instances" =>
                \E c \in Range(api.clouds) : \E i \in 1..Len(api.folders[c.id]) :
                    /\ Allowed(c, options.yacloud_clouds)
                    /\ api.folders[c.id][i].id = requests[k].id
                    /\ Allowed(api.folders[c.id][i], options.yacloud_folders)
    /\ inventory # EmptyInventory =>
          /\ Pos(pc) >= Pos("process_hosts")
          /\ Len(requests) = 1 + Len(clouds) + Len(folders)

C9_Witness ==
    /\ pc = "done"
    /\ Len(clouds) < Len(api.clouds)
    /\ Len(folders) < Len(SelectedCloudsFolders)
    /\ Len(requests) >= 3
    /\ inventory # EmptyInventory

(***************************************************************************)
(* C10: once _init_client has resolved the token, a configured token file  *)
(* alone decides it: the token is the file's content stripped of           *)
(* surrounding whitespace, and if that is empty the run fails with the     *)
(* configuration error whatever the literal token; the literal token is    *)
(* the token only when no token file is configured.                        *)
(***************************************************************************)
C10_TokenFileOverridesLiteral ==
    (Pos(pc) > Pos("init_client") \/ (pc = "init_client" /\ error = "AnsibleError")) =>
        IF config_file.yacloud_token_file # None
        THEN /\ fs.exists
             /\ IsStripOf(token, fs.content)
             /\ (\A i \in 1..Len(fs.content) : fs.content[i] \in Whitespace)
                   => (pc = "init_client" /\ error = "AnsibleError" /\ ~sdk)
        ELSE token = config_file.yacloud_token

C10_Witness ==
    /\ config_file.yacloud_token_file # None
    /\ config_file.yacloud_token # <<>>
    /\ fs.exists
    /\ \E i \in 1..Len(fs.content) : fs.content[i] \in {12, 160}
    /\ token = <<>>
    /\ pc = "init_client"
    /\ error = "AnsibleError"

====
